---- MODULE Spec2Model ----
(***************************************************************************)
(* State-machine model of the cosmwasm-1-to-2-transfer contract            *)
(* (src/src/contract.rs, src/src/state.rs, src/src/msg.rs).                *)
(*                                                                         *)
(* The persistent storage holds the STATE item (StateItem) and the         *)
(* BALANCES map.  One action models one whole entry-point call made on     *)
(* that storage: instantiate, execute_transfer, execute_withdraw, query.   *)
(* The variables msg, res and prev record the last call, its Result and    *)
(* the storage it was made on, so that properties of a call can be stated  *)
(* over the states; owed, received, fees_paid and withdrawn total the      *)
(* credits and payments of the calls made so far.                          *)
(* Uint128 is modelled with its width scaled down: the largest value is    *)
(* UintMax, and checked_add fails above it exactly as it does above        *)
(* 2^128 - 1.                                                              *)
(***************************************************************************)
EXTENDS Integers, Sequences, FiniteSets, TLC

\* ---------------------------------------------------------------- bounds
UintMax == 4
MaxFunds == 4
MaxFee == 1
\* The number of calls of a run whose payments are totalled (SpecBank).
MaxCalls == 4

\* ---------------------------------------------------------------- values
\* Account strings handed to the contract; "" is not a well-formed address.
Accounts == {"creator", "recipient_a", "recipient_b"}
Malformed == {""}
Recipients == Accounts \cup Malformed

Uint128 == 0..UintMax

coin(amount, denom) == [denom |-> denom, amount |-> amount]

coins(amount, denom) == <<coin(amount, denom)>>

BankSend(to_address, amount) == [to_address |-> to_address, amount |-> amount]

\* Result values: Ok, or the error the contract returns.
Ok == "ok"
NotFound == "not found"
InstantiateFunds == "the creator shouldn't send money to this contract"
MissingFunds == "please send usei"
TooManyDenominations == "please only send usei"
InvalidDenomination == "invalid denomination"
InsufficientForFee == "funds <= fee"
UnevenSplit == "invalid funds"
InvalidAddress == "invalid address"
BalanceOverflow == "balance overflow occured"
UnexpectedFunds == "no funds required"
Unauthorized == "Unauthorized"
InsufficientFunds == "insufficient funds"

\* A Result: the error (or Ok), the storage as the call leaves it, and the
\* messages of the Response (empty on an error).  data holds the response of
\* a query and is empty for the other calls.
Result(err, storage, messages) == [err |-> err, storage |-> storage, messages |-> messages, data |-> <<>>]

\* The Result of a query: the storage it was handed, no message, and the
\* response it serialises.
QueryResult(err, storage, data) == [err |-> err, storage |-> storage, messages |-> <<>>, data |-> data]

\* ----------------------------------------------------------- storage maps
\* BALANCES.has
has(balances, addr) == addr \in DOMAIN balances

\* BALANCES.save
save(balances, addr, value) == [a \in (DOMAIN balances) \cup {addr} |-> IF a = addr THEN value ELSE balances[a]]

\* BALANCES.remove
remove(balances, addr) == [a \in (DOMAIN balances) \ {addr} |-> balances[a]]

\* deps.api.addr_validate
addr_validate(account) == IF account \in Malformed THEN [ok |-> FALSE, addr |-> account] ELSE [ok |-> TRUE, addr |-> account]

\* Uint128::checked_add
checked_add(a, b) == IF a + b > UintMax THEN [ok |-> FALSE, r |-> 0] ELSE [ok |-> TRUE, r |-> a + b]

\* ------------------------------------------------------------ instantiate
\* An instantiate that saves the State before it looks at the payment.
instantiate_saves_first(storage, info, send_fee) ==
    LET state == [owner |-> info.sender, send_fee |-> send_fee] IN
    IF info.funds # <<>>
    THEN Result(InstantiateFunds, [storage EXCEPT !.StateItem = <<state>>], <<>>)
    ELSE Result(Ok, [storage EXCEPT !.StateItem = <<state>>], <<>>)

instantiate(storage, info, send_fee) ==
    LET state == [owner |-> info.sender, send_fee |-> send_fee] IN
    IF info.funds # <<>>
    THEN Result(InstantiateFunds, storage, <<>>)
    ELSE Result(Ok, [storage EXCEPT !.StateItem = <<state>>], <<>>)

\* ------------------------------------------------------- execute_transfer
\* The check that the payment covers more than the fee.
below_fee_strict(funds, send_fee) == funds < send_fee

below_fee(funds, send_fee) == funds <= send_fee

\* A half taken after one more unit is set aside.
half_of_less_one(to_send) == (to_send - 1) \div 2

\* The amount credited to each recipient.
half_of(to_send) == to_send \div 2

\* A credit that stores the half in place of the sum.
credited_overwrite(balance, half) == [ok |-> TRUE, r |-> half]

\* The balance written for an account that already has an entry.
credited(balance, half) == checked_add(balance, half)

\* One iteration of the loop over the two recipients: the error (or Ok) and
\* the BALANCES map as the iteration leaves it.
credit_account(balances, account, half) ==
    LET v == addr_validate(account) IN
    IF ~v.ok THEN [err |-> InvalidAddress, balances |-> balances]
    ELSE IF ~has(balances, v.addr)
    THEN [err |-> Ok, balances |-> save(balances, v.addr, half)]
    ELSE LET new_balance == credited(balances[v.addr], half) IN
         IF ~new_balance.ok THEN [err |-> BalanceOverflow, balances |-> balances]
         ELSE IF new_balance.r = 0
         THEN [err |-> Ok, balances |-> remove(balances, v.addr)]
         ELSE [err |-> Ok, balances |-> save(balances, v.addr, new_balance.r)]

\* A loop that credits an account named twice only once.
credit_accounts_merged(balances, accounts, half) ==
    LET first == credit_account(balances, accounts[1], half) IN
    IF first.err # Ok \/ accounts[1] = accounts[2] THEN first
    ELSE credit_account(first.balances, accounts[2], half)

\* A loop that passes over a failure of its last iteration.
credit_accounts_last_lenient(balances, accounts, half) ==
    LET first == credit_account(balances, accounts[1], half) IN
    IF first.err # Ok THEN first
    ELSE LET second == credit_account(first.balances, accounts[2], half) IN
         [err |-> Ok, balances |-> second.balances]

\* The loop over accounts: it stops at the first error, with the writes of
\* the earlier iterations already made in the storage.
RECURSIVE credit_accounts(_, _, _)
credit_accounts(balances, accounts, half) ==
    IF accounts = <<>> THEN [err |-> Ok, balances |-> balances]
    ELSE LET r == credit_account(balances, Head(accounts), half) IN
         IF r.err # Ok THEN r
         ELSE credit_accounts(r.balances, Tail(accounts), half)

\* A variant that credits the fee to the owner's entry and emits nothing.
transfer_done_accrued(storage, state, balances) ==
    LET fee == credit_account(balances, state.owner, state.send_fee) IN
    Result(fee.err, [storage EXCEPT !.BALANCES = fee.balances], <<>>)

\* A variant that writes the State back with the collected fee added to it.
transfer_done_fee_saved(storage, state, balances) ==
    Result(Ok, [storage EXCEPT !.BALANCES = balances,
                               !.StateItem = <<[state EXCEPT !.send_fee = @ + state.send_fee]>>],
           <<BankSend(state.owner, coins(state.send_fee, "usei"))>>)

\* The Result of a transfer whose credits all succeeded: the fee is sent to
\* the owner.
transfer_done(storage, state, balances) ==
    Result(Ok, [storage EXCEPT !.BALANCES = balances],
           <<BankSend(state.owner, coins(state.send_fee, "usei"))>>)

execute_transfer(storage, info, recipient_a, recipient_b) ==
    IF storage.StateItem = <<>> THEN Result(NotFound, storage, <<>>)
    ELSE LET state == storage.StateItem[1] IN
    IF info.funds = <<>> THEN Result(MissingFunds, storage, <<>>)
    ELSE IF Len(info.funds) # 1 THEN Result(TooManyDenominations, storage, <<>>)
    ELSE IF info.funds[1].denom # "usei" THEN Result(InvalidDenomination, storage, <<>>)
    ELSE LET funds == info.funds[1].amount IN
    IF below_fee(funds, state.send_fee) THEN Result(InsufficientForFee, storage, <<>>)
    ELSE LET to_send == funds - state.send_fee IN
    IF to_send % 2 # 0 THEN Result(UnevenSplit, storage, <<>>)
    ELSE LET half == half_of(to_send)
             r == credit_accounts(storage.BALANCES, <<recipient_a, recipient_b>>, half)
         IN IF r.err # Ok
            THEN Result(r.err, [storage EXCEPT !.BALANCES = r.balances], <<>>)
            ELSE transfer_done(storage, state, r.balances)

\* ------------------------------------------------------- execute_withdraw
\* A check that lets one unit more than the balance through.
exceeds_by_two(amount, balance) == amount > balance + 1

\* A check that also turns down an amount of zero.
exceeds_or_zero(amount, balance) == amount = 0 \/ amount > balance

\* The check of the requested amount against the stored balance.
exceeds(amount, balance) == amount > balance

\* A deduction of half the amount that is paid out.
deducted_half_amount(balance, amount) == balance - amount \div 2

\* A deduction that empties the balance whatever the amount.
deducted_all(balance, amount) == 0

\* The balance written back by a withdrawal.
deducted(balance, amount) == balance - amount

\* A withdrawal that looks for the entry before it looks at the payment.
execute_withdraw_entry_first(storage, info, amount) ==
    IF ~has(storage.BALANCES, info.sender) THEN Result(Unauthorized, storage, <<>>)
    ELSE IF info.funds # <<>> THEN Result(UnexpectedFunds, storage, <<>>)
    ELSE LET balance == storage.BALANCES[info.sender] IN
    IF exceeds(amount, balance) THEN Result(InsufficientFunds, storage, <<>>)
    ELSE LET new_balance == deducted(balance, amount) IN
         Result(Ok, [storage EXCEPT !.BALANCES = save(storage.BALANCES, info.sender, new_balance)],
                <<BankSend(info.sender, coins(amount, "usei"))>>)

\* A withdrawal that refuses to take the whole balance.
execute_withdraw_keeps_one(storage, info, amount) ==
    IF info.funds # <<>> THEN Result(UnexpectedFunds, storage, <<>>)
    ELSE IF ~has(storage.BALANCES, info.sender) THEN Result(Unauthorized, storage, <<>>)
    ELSE LET balance == storage.BALANCES[info.sender] IN
    IF amount >= balance THEN Result(InsufficientFunds, storage, <<>>)
    ELSE LET new_balance == deducted(balance, amount) IN
         Result(Ok, [storage EXCEPT !.BALANCES = save(storage.BALANCES, info.sender, new_balance)],
                <<BankSend(info.sender, coins(amount, "usei"))>>)

execute_withdraw(storage, info, amount) ==
    IF info.funds # <<>> THEN Result(UnexpectedFunds, storage, <<>>)
    ELSE IF ~has(storage.BALANCES, info.sender) THEN Result(Unauthorized, storage, <<>>)
    ELSE LET balance == storage.BALANCES[info.sender] IN
    IF exceeds(amount, balance) THEN Result(InsufficientFunds, storage, <<>>)
    ELSE LET new_balance == deducted(balance, amount) IN
         Result(Ok, [storage EXCEPT !.BALANCES = save(storage.BALANCES, info.sender, new_balance)],
                <<BankSend(info.sender, coins(amount, "usei"))>>)

\* ------------------------------------------------------------------ query
query_owner(storage) ==
    IF storage.StateItem = <<>> THEN [err |-> NotFound, owner |-> ""]
    ELSE [err |-> Ok, owner |-> storage.StateItem[1].owner]

query_send_fee(storage) ==
    IF storage.StateItem = <<>> THEN [err |-> NotFound, fee |-> 0]
    ELSE [err |-> Ok, fee |-> storage.StateItem[1].send_fee]

\* A balance query that loads the entry without looking for it first.
query_balance_load_only(storage, account) ==
    LET v == addr_validate(account) IN
    IF ~v.ok THEN [err |-> InvalidAddress, balance |-> 0]
    ELSE IF has(storage.BALANCES, v.addr)
    THEN [err |-> Ok, balance |-> storage.BALANCES[v.addr]]
    ELSE [err |-> NotFound, balance |-> 0]

query_balance(storage, account) ==
    LET v == addr_validate(account) IN
    IF ~v.ok THEN [err |-> InvalidAddress, balance |-> 0]
    ELSE IF has(storage.BALANCES, v.addr)
    THEN [err |-> Ok, balance |-> storage.BALANCES[v.addr]]
    ELSE [err |-> Ok, balance |-> 0]

\* The query entry point: it reads the storage and serialises the response.
query(storage, qmsg) ==
    IF qmsg.op = "get_owner"
    THEN LET q == query_owner(storage) IN
         QueryResult(q.err, storage, IF q.err = Ok THEN <<[owner |-> q.owner]>> ELSE <<>>)
    ELSE IF qmsg.op = "get_send_fee"
    THEN LET q == query_send_fee(storage) IN
         QueryResult(q.err, storage, IF q.err = Ok THEN <<[fee |-> q.fee]>> ELSE <<>>)
    ELSE LET q == query_balance(storage, qmsg.account) IN
         QueryResult(q.err, storage, IF q.err = Ok THEN <<[balance |-> q.balance]>> ELSE <<>>)

\* ------------------------------------------------------------------ state
VARIABLES StateItem, BALANCES, msg, res, prev, owed, received, fees_paid, withdrawn, calls

\* owed[x]: everything credited to x's ledger balance so far, less everything
\* paid out to x by its withdrawals.  received, fees_paid, withdrawn: the
\* amounts attached to successful transfers, sent to the owner as fees, and
\* sent by successful withdrawals, totalled over the calls counted in calls.
bank == <<received, fees_paid, withdrawn, calls>>

vars == <<StateItem, BALANCES, msg, res, prev, owed, received, fees_paid, withdrawn, calls>>

\* The storage the next call is made on.
Storage == [StateItem |-> StateItem, BALANCES |-> BALANCES]

\* The inputs the calls are made with.
Creators == {"creator", "recipient_a"}
Amounts == {n \in 0..MaxFunds : n <= UintMax}
Fees == {n \in 0..MaxFee : n <= UintMax}
NoFunds == <<>>
OneUsei == {coins(n, "usei") : n \in Amounts}
OtherFunds == {NoFunds, coins(1, "BTC"), <<coin(1, "usei"), coin(1, "usei")>>, <<coin(1, "usei"), coin(1, "BTC")>>}
FundsSent == OneUsei \cup OtherFunds
FundsUnexpected == {NoFunds, coins(1, "usei")}

\* A transfer: any single non-zero usei payment to any two recipients, and
\* each other payment (of 0 usei among them) to recipient_a and recipient_b.
TransferMsgs ==
    {<<funds, a, b>> : funds \in OneUsei \ {coins(0, "usei")}, a \in Recipients, b \in Recipients}
        \cup {<<funds, "recipient_a", "recipient_b">> : funds \in OtherFunds \cup {coins(0, "usei")}}

\* A withdrawal: any amount by any account with no payment, and amount 1 with
\* a payment attached.
WithdrawMsgs ==
    {<<sender, NoFunds, amount>> : sender \in Accounts, amount \in Uint128}
        \cup {<<sender, coins(1, "usei"), 1>> : sender \in Accounts}

\* A query: the owner, the fee, or the balance of any account string.
QueryMsgs ==
    {[op |-> "get_owner", account |-> ""], [op |-> "get_send_fee", account |-> ""]}
        \cup {[op |-> "get_balance", account |-> a] : a \in Recipients}

NoMsg == [op |-> "none", sender |-> "", funds |-> <<>>, recipient_a |-> "", recipient_b |-> "", amount |-> 0]

\* The sum of the usei amounts of the messages sent to an address.
RECURSIVE SentTo(_, _)
SentTo(messages, to_address) ==
    IF messages = <<>> THEN 0
    ELSE (IF Head(messages).to_address = to_address THEN Head(messages).amount[1].amount ELSE 0)
             + SentTo(Tail(messages), to_address)

\* What a call added to the ledger balance of an account.
CreditedTo(x, before, after) ==
    LET old == IF has(before.BALANCES, x) THEN before.BALANCES[x] ELSE 0
        new == IF has(after.BALANCES, x) THEN after.BALANCES[x] ELSE 0
    IN IF new > old THEN new - old ELSE 0

\* What a call paid out to an account as its withdrawal.
WithdrawnBy(x, m, r) == IF m.op = "withdraw" /\ m.sender = x THEN SentTo(r.messages, x) ELSE 0

\* The state a call leaves: the storage it wrote, and the record of the call.
Called(m, r) ==
    \E done \in {r} :
        /\ owed' = IF done.storage.BALANCES = BALANCES /\ done.messages = <<>> THEN owed
                   ELSE [x \in Accounts |->
                            owed[x] + CreditedTo(x, Storage, done.storage) - WithdrawnBy(x, m, done)]
        /\ StateItem' = done.storage.StateItem
        /\ BALANCES' = done.storage.BALANCES
        /\ msg' = m
        /\ res' = [err |-> done.err, messages |-> done.messages, data |-> done.data]
        /\ prev' = Storage

Init ==
    /\ StateItem = <<>>
    /\ BALANCES = <<>>
    /\ msg = NoMsg
    /\ res = [err |-> Ok, messages |-> <<>>, data |-> <<>>]
    /\ prev = [StateItem |-> <<>>, BALANCES |-> <<>>]
    /\ owed = [x \in Accounts |-> 0]
    /\ received = 0
    /\ fees_paid = 0
    /\ withdrawn = 0
    /\ calls = 0

\* The chain instantiates a contract once; a rejected instantiate stores
\* nothing and may be tried again.
Instantiate ==
    /\ StateItem = <<>>
    /\ \E sender \in Creators, funds \in FundsUnexpected, send_fee \in Fees :
         Called([NoMsg EXCEPT !.op = "instantiate", !.sender = sender, !.funds = funds, !.amount = send_fee],
                instantiate(Storage, [sender |-> sender, funds |-> funds], send_fee))

\* Execute messages reach an instantiated contract only.
Transfer ==
    /\ StateItem # <<>>
    /\ \E m \in TransferMsgs :
         Called([NoMsg EXCEPT !.op = "transfer", !.sender = "sender_a", !.funds = m[1],
                              !.recipient_a = m[2], !.recipient_b = m[3]],
                execute_transfer(Storage, [sender |-> "sender_a", funds |-> m[1]], m[2], m[3]))

Withdraw ==
    /\ StateItem # <<>>
    /\ \E m \in WithdrawMsgs :
         Called([NoMsg EXCEPT !.op = "withdraw", !.sender = m[1], !.funds = m[2], !.amount = m[3]],
                execute_withdraw(Storage, [sender |-> m[1], funds |-> m[2]], m[3]))

\* Queries reach an instantiated contract only; recipient_a holds the
\* account string of a balance query.
Query ==
    /\ StateItem # <<>>
    /\ \E q \in QueryMsgs :
         Called([NoMsg EXCEPT !.op = q.op, !.recipient_a = q.account], query(Storage, q))

Next ==
    \/ Instantiate /\ UNCHANGED bank
    \/ Transfer /\ UNCHANGED bank
    \/ Withdraw /\ UNCHANGED bank
    \/ Query /\ UNCHANGED bank

Spec == Init /\ [][Next]_vars

\* The payments of the call just made, added to the totals: the amount
\* attached to a successful transfer and the fee it sent to the owner, and
\* the amount a successful withdrawal sent to its sender.
Counted ==
    /\ calls' = calls + 1
    /\ received' = received + (IF msg'.op = "transfer" /\ res'.err = Ok THEN msg'.funds[1].amount ELSE 0)
    /\ fees_paid' = fees_paid + (IF msg'.op = "transfer" THEN SentTo(res'.messages, StateItem'[1].owner) ELSE 0)
    /\ withdrawn' = withdrawn + (IF msg'.op = "withdraw" THEN SentTo(res'.messages, msg'.sender) ELSE 0)

\* The same calls, with the payments of the first MaxCalls calls totalled.
BankNext ==
    \/ calls < MaxCalls /\ Instantiate /\ Counted
    \/ calls < MaxCalls /\ Transfer /\ Counted
    \/ calls < MaxCalls /\ Withdraw /\ Counted
    \/ calls < MaxCalls /\ Query /\ Counted

SpecBank == Init /\ [][BankNext]_vars

\* ------------------------------------------------------------ properties
\* What get_balance reports for an account.
balance_of(storage, account) == query_balance(storage, account).balance

\* The sum of all balances of a ledger.
RECURSIVE Total(_)
Total(balances) ==
    IF DOMAIN balances = {} THEN 0
    ELSE LET a == CHOOSE x \in DOMAIN balances : TRUE IN
         balances[a] + Total(remove(balances, a))

owner == StateItem[1].owner
send_fee == StateItem[1].send_fee

TransferCalled == msg.op = "transfer"
WithdrawCalled == msg.op = "withdraw"
TransferOk == TransferCalled /\ res.err = Ok
WithdrawOk == WithdrawCalled /\ res.err = Ok

\* The error the ordered validation of a transfer's payment reports, "" when
\* the payment passes: the rules of the payment checks, first failure first.
ExpectedFundsError ==
    IF Len(msg.funds) = 0 THEN MissingFunds
    ELSE IF Len(msg.funds) > 1 THEN TooManyDenominations
    ELSE IF msg.funds[1].denom # "usei" THEN InvalidDenomination
    ELSE IF msg.funds[1].amount <= send_fee THEN InsufficientForFee
    ELSE IF (msg.funds[1].amount - send_fee) % 2 = 1 THEN UnevenSplit
    ELSE ""

FundsErrors == {MissingFunds, TooManyDenominations, InvalidDenomination, InsufficientForFee, UnevenSplit}

\* The error the ordered validation of a withdrawal reports, Ok when it passes.
ExpectedWithdrawError ==
    IF msg.funds # <<>> THEN UnexpectedFunds
    ELSE IF msg.sender \notin DOMAIN prev.BALANCES THEN Unauthorized
    ELSE IF msg.amount > prev.BALANCES[msg.sender] THEN InsufficientFunds
    ELSE Ok

\* C1. Conservation: a successful transfer of amount with fee send_fee
\* credits each recipient the same half = (amount - send_fee) / 2, with
\* half + half + send_fee = amount; the fee leaves as one outbound payment of
\* send_fee; the sum of all balances grows by exactly amount - send_fee.
C1_Conservation ==
    TransferOk =>
        LET amount == msg.funds[1].amount
            half == (amount - send_fee) \div 2
            a == msg.recipient_a
            b == msg.recipient_b
            credit(x) == (IF a = x THEN half ELSE 0) + (IF b = x THEN half ELSE 0)
        IN /\ half + half + send_fee = amount
           /\ \A x \in Accounts : balance_of(Storage, x) = balance_of(prev, x) + credit(x)
           /\ res.messages = <<BankSend(owner, coins(send_fee, "usei"))>>
           /\ Total(BALANCES) = Total(prev.BALANCES) + amount - send_fee

\* A transfer with a fee of 1 succeeded between two different accounts, one
\* of which already held a balance.
C1_Witness ==
    /\ TransferOk
    /\ send_fee = 1
    /\ msg.recipient_a # msg.recipient_b
    /\ balance_of(prev, msg.recipient_a) > 0
    /\ balance_of(Storage, msg.recipient_b) > balance_of(prev, msg.recipient_b)

\* C2. Every entry present in the balance ledger holds a non-zero balance,
\* except possibly the owner's entry.
C2_NonZeroEntries ==
    \A a \in DOMAIN BALANCES : BALANCES[a] # 0 \/ (StateItem # <<>> /\ a = owner)

\* C3. After a withdrawal that brings a non-owner account's balance to zero
\* the entry is removed and the account behaves like one never credited:
\* get_balance is zero, a further withdraw of 0 or 1 fails with Unauthorized,
\* and a later credit sets the balance to exactly the credited amount.
C3_ZeroBalanceCleanup ==
    (WithdrawOk /\ msg.sender # owner /\ balance_of(Storage, msg.sender) = 0) =>
        LET info == [sender |-> msg.sender, funds |-> NoFunds] IN
        /\ ~has(BALANCES, msg.sender)
        /\ query_balance(Storage, msg.sender) = [err |-> Ok, balance |-> 0]
        /\ execute_withdraw(Storage, info, 0).err = Unauthorized
        /\ execute_withdraw(Storage, info, 1).err = Unauthorized
        /\ credit_account(BALANCES, msg.sender, 1).balances[msg.sender] = 1

\* C4. Every failing call commits nothing: when instantiate, transfer or
\* withdraw returns an error, the configuration and the whole ledger are
\* what they were before the call.
C4_FailureCommitsNothing ==
    res.err # Ok => Storage = prev

\* C5. A withdraw whose amount exceeds the requester's balance is rejected
\* and leaves the ledger unchanged, with InsufficientFunds when the requester
\* has an entry and attached no payment; every balance of every reachable
\* state is within the unsigned range.
C5_NoNegativeBalance ==
    /\ \A a \in DOMAIN BALANCES : BALANCES[a] \in Uint128
    /\ (WithdrawCalled /\ msg.amount > balance_of(prev, msg.sender)) =>
           /\ res.err # Ok
           /\ res.messages = <<>>
           /\ BALANCES = prev.BALANCES
           /\ (msg.funds = <<>> /\ has(prev.BALANCES, msg.sender)) => res.err = InsufficientFunds

\* An account holding a non-zero balance asked for more than it holds.
C5_Witness ==
    /\ WithdrawCalled
    /\ msg.funds = <<>>
    /\ has(prev.BALANCES, msg.sender)
    /\ prev.BALANCES[msg.sender] > 0
    /\ msg.amount > prev.BALANCES[msg.sender]
    /\ res.err = InsufficientFunds

\* C6. A transfer in which a recipient's existing balance plus what the
\* transfer credits to it (twice the half when recipient_a = recipient_b)
\* exceeds the largest unsigned value fails with the balance-overflow error
\* and leaves that account's prior balance unchanged.
C6_OverflowRejected ==
    (TransferCalled /\ ExpectedFundsError = ""
        /\ addr_validate(msg.recipient_a).ok /\ addr_validate(msg.recipient_b).ok) =>
        LET half == (msg.funds[1].amount - send_fee) \div 2
            a == msg.recipient_a
            b == msg.recipient_b
            credit(x) == (IF a = x THEN half ELSE 0) + (IF b = x THEN half ELSE 0)
            over == {x \in {a, b} : balance_of(prev, x) + credit(x) > UintMax}
        IN over # {} =>
               /\ res.err = BalanceOverflow
               /\ \A x \in over : has(BALANCES, x) /\ BALANCES[x] = balance_of(prev, x)

\* C7. The payment checks of a transfer are ordered and short-circuiting:
\* the error reported is that of the first failing check, a payment that
\* passes them all gets none of these errors, and a failing check leaves the
\* configuration and the ledger untouched.
C7_TransferValidationOrder ==
    TransferCalled =>
        /\ ExpectedFundsError # "" =>
               /\ res.err = ExpectedFundsError
               /\ res.messages = <<>>
               /\ Storage = prev
        /\ ExpectedFundsError = "" => res.err \notin FundsErrors

\* A payment equal to the fee was rejected as not covering the fee, on a
\* ledger that already held entries.
C7_Witness ==
    /\ TransferCalled
    /\ res.err = InsufficientForFee
    /\ send_fee = 1
    /\ msg.funds = coins(1, "usei")
    /\ BALANCES # <<>>

\* C8. The checks of a withdrawal are ordered: an attached payment gives
\* UnexpectedFunds first; else a requester with no entry gives Unauthorized;
\* else an amount above the balance gives InsufficientFunds; else the call
\* succeeds.  An account with no entry never gets InsufficientFunds.
C8_WithdrawValidationOrder ==
    WithdrawCalled =>
        /\ res.err = ExpectedWithdrawError
        /\ ~has(prev.BALANCES, msg.sender) => res.err \in {UnexpectedFunds, Unauthorized}

\* An account with no entry attached a payment to its withdrawal while other
\* accounts held balances.
C8_Witness ==
    /\ WithdrawCalled
    /\ msg.funds # <<>>
    /\ ~has(prev.BALANCES, msg.sender)
    /\ prev.BALANCES # <<>>
    /\ res.err = UnexpectedFunds

\* C9. A successful withdraw(amount) by X lowers X's balance by exactly
\* amount, emits exactly one outbound payment of amount usei to X, and leaves
\* every other entry and the configuration unchanged.
C9_WithdrawEffect ==
    WithdrawOk =>
        /\ has(BALANCES, msg.sender)
        /\ BALANCES[msg.sender] = prev.BALANCES[msg.sender] - msg.amount
        /\ res.messages = <<BankSend(msg.sender, coins(msg.amount, "usei"))>>
        /\ DOMAIN BALANCES = DOMAIN prev.BALANCES
        /\ \A x \in DOMAIN BALANCES \ {msg.sender} : BALANCES[x] = prev.BALANCES[x]
        /\ StateItem = prev.StateItem

\* An account holding 3 withdrew 2 while another account held a balance.
C9_Witness ==
    /\ WithdrawOk
    /\ prev.BALANCES[msg.sender] = 3
    /\ msg.amount = 2
    /\ BALANCES[msg.sender] = 1
    /\ \E x \in DOMAIN BALANCES \ {msg.sender} : BALANCES[x] > 0

\* C10. In every reachable state every account with a non-zero balance b can
\* withdraw it: withdraw(b) with no attached payment succeeds, pays out b and
\* leaves the account with balance zero.
C10_Withdrawable ==
    \A a \in DOMAIN BALANCES :
        BALANCES[a] # 0 =>
            LET r == execute_withdraw(Storage, [sender |-> a, funds |-> NoFunds], BALANCES[a]) IN
            /\ r.err = Ok
            /\ r.messages = <<BankSend(a, coins(BALANCES[a], "usei"))>>
            /\ balance_of(r.storage, a) = 0

\* An account withdrew its whole balance after another account had withdrawn.
C10_Witness ==
    /\ WithdrawOk
    /\ msg.amount = prev.BALANCES[msg.sender]
    /\ msg.amount > 1
    /\ balance_of(Storage, msg.sender) = 0
    /\ \E x \in DOMAIN BALANCES \ {msg.sender} : BALANCES[x] = 0

QueryCalled == msg.op \in {"get_owner", "get_send_fee", "get_balance"}
InstantiateCalled == msg.op = "instantiate"

\* What a successful transfer credits to account x: the half once for each
\* of the two recipient roles x has.
TransferCredit(x) ==
    LET half == (msg.funds[1].amount - send_fee) \div 2 IN
    (IF msg.recipient_a = x THEN half ELSE 0) + (IF msg.recipient_b = x THEN half ELSE 0)

\* C11. When recipient_a = recipient_b in a successful transfer the account
\* is credited twice: its balance grows by the full amount - send_fee, not by
\* one half.
C11_SameRecipientTwice ==
    (TransferOk /\ msg.recipient_a = msg.recipient_b) =>
        /\ has(BALANCES, msg.recipient_a)
        /\ BALANCES[msg.recipient_a] = balance_of(prev, msg.recipient_a) + (msg.funds[1].amount - send_fee)

\* With a fee of 1, 3 usei were sent to an account with no entry, twice
\* named, and it holds 2.
C11_Witness ==
    /\ TransferOk
    /\ msg.recipient_a = msg.recipient_b
    /\ send_fee = 1
    /\ msg.funds = coins(3, "usei")
    /\ ~has(prev.BALANCES, msg.recipient_a)
    /\ BALANCES[msg.recipient_a] = 2

\* C12. Every successful transfer emits exactly one outbound payment, of
\* send_fee usei, to the owner; the fee is never added to the owner's ledger
\* balance, and an owner that is not a recipient keeps its entry (or its
\* absence) unchanged.
C12_FeePayout ==
    TransferOk =>
        /\ res.messages = <<BankSend(owner, coins(send_fee, "usei"))>>
        /\ balance_of(Storage, owner) = balance_of(prev, owner) + TransferCredit(owner)
        /\ owner \notin {msg.recipient_a, msg.recipient_b} =>
               /\ has(BALANCES, owner) = has(prev.BALANCES, owner)
               /\ has(BALANCES, owner) => BALANCES[owner] = prev.BALANCES[owner]

\* A transfer with a fee of 1 succeeded between two accounts other than the
\* owner, while the owner held a ledger balance.
C12_Witness ==
    /\ TransferOk
    /\ send_fee = 1
    /\ owner \notin {msg.recipient_a, msg.recipient_b}
    /\ has(BALANCES, owner)
    /\ BALANCES[owner] > 0

\* C13. The configuration is immutable after initialization: every transfer,
\* withdraw and query call, successful or failing, leaves owner and send_fee
\* as the successful instantiate set them.
C13_ConfigImmutable ==
    (TransferCalled \/ WithdrawCalled \/ QueryCalled) =>
        /\ StateItem # <<>>
        /\ StateItem = prev.StateItem

\* A successful transfer with a fee of 1 on a contract owned by recipient_a,
\* who is one of its recipients.
C13_Witness ==
    /\ TransferOk
    /\ send_fee = 1
    /\ owner = "recipient_a"
    /\ msg.recipient_b = owner
    /\ prev.BALANCES # <<>>

\* C14. instantiate with an attached payment is rejected and stores no
\* configuration; with no payment it succeeds, sets owner to the caller and
\* send_fee to the supplied value, and starts with an empty ledger: get_owner
\* returns the caller, get_send_fee the fee, get_balance of any account zero.
C14_Initialization ==
    InstantiateCalled =>
        IF msg.funds # <<>>
        THEN /\ res.err # Ok
             /\ StateItem = <<>>
             /\ BALANCES = <<>>
        ELSE /\ res.err = Ok
             /\ StateItem = <<[owner |-> msg.sender, send_fee |-> msg.amount]>>
             /\ BALANCES = <<>>
             /\ query(Storage, [op |-> "get_owner", account |-> ""]).data = <<[owner |-> msg.sender]>>
             /\ query(Storage, [op |-> "get_send_fee", account |-> ""]).data = <<[fee |-> msg.amount]>>
             /\ \A a \in Accounts :
                    query(Storage, [op |-> "get_balance", account |-> a]).data = <<[balance |-> 0]>>

\* recipient_a instantiated the contract with a fee of 1 after an attempt
\* with a payment had been rejected.
C14_Witness ==
    /\ InstantiateCalled
    /\ res.err = Ok
    /\ msg.sender = "recipient_a"
    /\ msg.amount = 1
    /\ owner = "recipient_a"

\* C15. Queries are read-only: get_owner, get_send_fee and get_balance leave
\* the configuration and the ledger unchanged; get_balance of a well-formed
\* account returns the stored balance when it has an entry and zero, not an
\* error, when it has none, and creates no entry.
C15_QueriesReadOnly ==
    QueryCalled =>
        /\ Storage = prev
        /\ res.messages = <<>>
        /\ msg.op = "get_owner" => res.err = Ok /\ res.data = <<[owner |-> owner]>>
        /\ msg.op = "get_send_fee" => res.err = Ok /\ res.data = <<[fee |-> send_fee]>>
        /\ (msg.op = "get_balance" /\ msg.recipient_a \in Accounts) =>
               /\ res.err = Ok
               /\ res.data = <<[balance |-> IF msg.recipient_a \in DOMAIN BALANCES
                                            THEN BALANCES[msg.recipient_a] ELSE 0]>>

\* The balance of an account with no entry was queried on a ledger that
\* holds other entries, and zero was returned.
C15_Witness ==
    /\ msg.op = "get_balance"
    /\ msg.recipient_a \in Accounts
    /\ ~has(BALANCES, msg.recipient_a)
    /\ BALANCES # <<>>
    /\ res.data = <<[balance |-> 0]>>

\* C16. For every transfer that passes the payment checks the half is at
\* least 1; a transfer never removes a ledger entry and never writes a zero
\* balance, and each recipient of a successful transfer ends with a strictly
\* positive balance.
C16_HalfPositive ==
    TransferCalled =>
        /\ ExpectedFundsError = "" => half_of(msg.funds[1].amount - send_fee) >= 1
        /\ DOMAIN prev.BALANCES \subseteq DOMAIN BALANCES
        /\ \A x \in DOMAIN BALANCES :
               (x \notin DOMAIN prev.BALANCES \/ BALANCES[x] # prev.BALANCES[x]) => BALANCES[x] > 0
        /\ res.err = Ok =>
               \A x \in {msg.recipient_a, msg.recipient_b} : has(BALANCES, x) /\ BALANCES[x] > 0

\* A successful transfer credited an account whose entry held zero.
C16_Witness ==
    /\ TransferOk
    /\ has(prev.BALANCES, msg.recipient_a)
    /\ prev.BALANCES[msg.recipient_a] = 0
    /\ BALANCES[msg.recipient_a] > 0

\* C17. Ledger entries are created only by the credit of a successful
\* transfer to one of its recipients: withdrawals, failed transfers and
\* queries never add a key to the ledger.
C17_EntriesOnlyByCredit ==
    \A x \in DOMAIN BALANCES \ DOMAIN prev.BALANCES :
        TransferOk /\ x \in {msg.recipient_a, msg.recipient_b}

\* C20. withdraw(0) with no attached payment by an account that has an entry
\* is accepted, leaves the ledger unchanged and emits an outbound payment of
\* amount 0; a successful transfer under a fee of 0 emits a fee payment of
\* amount 0.
C20_ZeroAmounts ==
    /\ (WithdrawCalled /\ msg.amount = 0 /\ msg.funds = <<>> /\ has(prev.BALANCES, msg.sender)) =>
           /\ res.err = Ok
           /\ Storage = prev
           /\ res.messages = <<BankSend(msg.sender, coins(0, "usei"))>>
    /\ (TransferOk /\ send_fee = 0) =>
           res.messages = <<BankSend(owner, coins(0, "usei"))>>

\* An account holding a non-zero balance withdrew 0 and was sent a payment
\* of amount 0.
C20_Witness ==
    /\ WithdrawOk
    /\ msg.amount = 0
    /\ BALANCES[msg.sender] > 0
    /\ res.messages[1].amount[1].amount = 0

\* C18. Solvency: after any sequence of calls the sum of all ledger balances
\* equals the total received by successful transfers, less the fees paid out
\* to the owner, less the total paid out by successful withdrawals.
C18_Solvency ==
    Total(BALANCES) = received - fees_paid - withdrawn

\* The fees sent to an account so far: the owner's are fees_paid.
FeesTo(x) == IF StateItem # <<>> /\ x = owner THEN fees_paid ELSE 0

\* No call but a successful withdraw by x itself lowers the balance of x.
OnlyOwnWithdrawLowers ==
    \A x \in Accounts :
        balance_of(Storage, x) < balance_of(prev, x) => WithdrawOk /\ msg.sender = x

\* C19 as stated. An account's balance decreases only through a successful
\* withdraw by that account, and the cumulative amount paid out to an account
\* (its withdrawals and the fees sent to it) never exceeds the cumulative
\* amount credited to it: paid out - credited = FeesTo(x) - owed[x] <= 0.
C19_DebitAuthority ==
    /\ OnlyOwnWithdrawLowers
    /\ \A x \in Accounts : FeesTo(x) - owed[x] <= 0

\* C19, amended. An account's balance decreases only through a successful
\* withdraw by that account, and the cumulative amount paid out to an account
\* by its withdrawals never exceeds the cumulative amount credited to its
\* ledger balance; what is left of the credits is the balance it holds.
C19_DebitAuthorityByWithdrawals ==
    /\ OnlyOwnWithdrawLowers
    /\ \A x \in Accounts : owed[x] >= 0 /\ owed[x] = balance_of(Storage, x)

\* An account withdrew, in two withdrawals, all that two transfers had
\* credited to it.
C19_Witness ==
    /\ WithdrawOk
    /\ msg.amount > 0
    /\ owed[msg.sender] = 0
    /\ withdrawn > msg.amount
    /\ balance_of(prev, msg.sender) = msg.amount

\* The same transfer made on the same storage with its two recipients
\* exchanged.
Swapped ==
    execute_transfer(prev, [sender |-> msg.sender, funds |-> msg.funds], msg.recipient_b, msg.recipient_a)

\* C21. Recipient-order independence: from the same state and with the same
\* attached payment, transfer(X, Y) and transfer(Y, X) either both succeed or
\* both fail, and when they succeed they leave identical ledgers and send
\* identical fee payments.
C21_RecipientOrderIndependence ==
    TransferCalled =>
        /\ (res.err = Ok) <=> (Swapped.err = Ok)
        /\ res.err = Ok =>
               /\ Swapped.storage.BALANCES = BALANCES
               /\ Swapped.storage = Storage
               /\ Swapped.messages = res.messages

\* A transfer with a fee of 1 succeeded between an account that held a
\* balance and a different account that had no entry.
C21_Witness ==
    /\ TransferOk
    /\ send_fee = 1
    /\ msg.recipient_a # msg.recipient_b
    /\ has(prev.BALANCES, msg.recipient_a)
    /\ ~has(prev.BALANCES, msg.recipient_b)
    /\ Swapped.err = Ok

\* A transfer failed at its second recipient, after the first was credited.
C21_FailedWitness ==
    /\ TransferCalled
    /\ res.err = InvalidAddress
    /\ msg.recipient_a \in Accounts
    /\ BALANCES # prev.BALANCES
    /\ Swapped.err = InvalidAddress
    /\ Swapped.storage = prev

====
